---- MODULE Spec2Model ----
(***************************************************************************)
(* elastic/apm-tools, package espoll: one SearchIndexMinDocs ("Poll") call *)
(* as a state machine.  SearchIndexMinDocs builds the search request,      *)
(* installs AllCondition(MinHitsCondition, TotalHitsCondition), refreshes  *)
(* the indices and hands the request to the client's retry loop.           *)
(*                                                                         *)
(* Strings are sequences of one-character strings, so that strings.Split   *)
(* is computed and not assumed.  Time is counted in ticks; a call starts   *)
(* at clock 0 and its deadline is the timeout.                             *)
(***************************************************************************)
EXTENDS Integers, Sequences, FiniteSets, TLC

VARIABLES
    index,        \* argument: the comma-separated index string
    min,          \* argument: the minimum number of hits
    timeout,      \* option WithTimeout, in ticks
    pc,           \* position of the call
    reqIndex,     \* req.Index of the search request
    reqSize,      \* req.Size of the search request (NoSize = nil)
    refreshReq,   \* Index of the refresh request that was issued
    searchReq,    \* Index and Size of the last search request issued
    refreshCount, \* refresh requests issued in this call
    searchCount,  \* search requests issued in this call
    attempts,     \* the session's attempt counter
    result,       \* the decode target: hits and reported total
    calls,        \* invocations of each sub-condition in this call
    vals,         \* what each sub-condition returned on the last evaluation
    clock,        \* ticks since the call started
    sleepLeft,    \* ticks left of the current backoff sleep
    cancelled,    \* the caller's context is cancelled
    err,          \* the error the call returned
    failedIn,     \* the position the call failed in
    errResult,    \* Result carried by the TimeoutError
    errAttempts,  \* attempt count carried by the TimeoutError
    lastResp,     \* the transport's last search response
    firstSat      \* number of the first search whose response satisfied the condition

vars == <<index, min, timeout, pc, reqIndex, reqSize, refreshReq, searchReq,
          refreshCount, searchCount, attempts, result, calls, vals, clock,
          sleepLeft, cancelled, err, failedIn, errResult, errAttempts,
          lastResp, firstSat>>

(* One application of a condition constructor of SearchHits *)
VARIABLES
    condRes,      \* the SearchHits the condition reads: hits and reported total
    condMin,      \* the argument of MinHitsCondition
    condPayload,  \* the SearchRequest given to TotalHitsCondition
    condBefore,   \* that request before the condition ran
    condOp,       \* the condition that ran last
    condOut       \* what it returned

condVars == <<condRes, condMin, condPayload, condBefore, condOp, condOut>>

(* One SearchHit.UnmarshalJSON call *)
VARIABLES
    decIn,        \* the JSON text of the hit, as the values it holds
    decOut,       \* the error returned and the SearchHit that was filled
    decPc         \* "input" before the call, "decoded" after it

decVars == <<decIn, decOut, decPc>>

(* Two SearchIndexMinDocs calls in flight at once, indexed by the call *)
VARIABLES
    twoMin,       \* each call's min argument
    twoTimeout,   \* each call's timeout
    twoDocs,      \* what the store holds for each call's searches
    twoPc,        \* each call's position
    twoSize,      \* req.Size of each search request
    twoResult,    \* each call's result
    twoAttempts,  \* searches each call has sent
    twoClock,     \* time each call has spent
    twoErr        \* the error each call returned

twoVars == <<twoMin, twoTimeout, twoDocs, twoPc, twoSize, twoResult, twoAttempts,
             twoClock, twoErr>>

(* One EventStats.Add call *)
VARIABLES
    statLhs,      \* the receiver
    statRhs,      \* the argument
    statOut,      \* what Add returned
    statPc        \* "input" before the call, "added" after it

statVars == <<statLhs, statRhs, statOut, statPc>>

(* One call of the Elasticsearch client's RetryBackoff function *)
VARIABLES
    boAttempt,    \* the attempt number
    boOut,        \* the duration returned
    boPc          \* "input" before the call, "returned" after it

boVars == <<boAttempt, boOut, boPc>>

(* apmtool processes that call getCredentials on one cache directory *)
VARIABLES
    timeNow,          \* the wall clock
    cacheFile,    \* credentials.json in the cache directory
    tempFile,     \* .temp.credentials.json in the cache directory
    flock,        \* the process that holds the lock on .flock, 0 for none
    gPc,          \* each process's position in getCredentials
    gURL,         \* cmd.cfg.APMServerURL of each process
    gDur,         \* the api-key-expiration flag of each process
    gCreds,       \* the credentials each process has created
    gData,        \* the data updateCache has read
    gNew,         \* the data the update function returned
    gUpdAt,       \* time.Now() in the update function
    gRead,        \* what readCachedCredentials returned to each process
    gRet,         \* what getCredentials returned to each process
    gEs,          \* the call has sent requests to Elasticsearch
    settled       \* per URL, the credentials of the last successful call

cacheVars == <<timeNow, cacheFile, tempFile, flock, gPc, gURL, gDur, gCreds, gData,
               gNew, gUpdAt, gRead, gRet, gEs, settled>>

otherVars == <<condVars, decVars, twoVars, statVars, boVars, cacheVars>>

allVars == <<vars, otherVars>>

condFrame == <<vars, decVars, twoVars, statVars, boVars, cacheVars>>

decFrame == <<vars, condVars, twoVars, statVars, boVars, cacheVars>>

twoFrame == <<vars, condVars, decVars, statVars, boVars, cacheVars>>

statFrame == <<vars, condVars, decVars, twoVars, boVars, cacheVars>>

boFrame == <<vars, condVars, decVars, twoVars, statVars, cacheVars>>

cacheFrame == <<vars, condVars, decVars, twoVars, statVars, boVars>>

----------------------------------------------------------------------------
(* Bounds *)

MaxCondHits == 3

MaxStat == 2

MaxNow == 3

MaxAttempt == 70

MaxFieldLen == 2

MaxDocs == 12

MaxTimeout == 3

BackoffInterval == 2

(* Program constants *)

DefaultSize == 10

NoSize == -1

Comma == <<",">>

Terminal == {"Succeeded", "Failed"}

NoResult == [hits |-> 0, total |-> 0]

Minimum(a, b) == IF a < b THEN a ELSE b

----------------------------------------------------------------------------
(* strings.Split *)

IndexOf(s, sep) ==
    LET ms == {i \in 1..(Len(s) - Len(sep) + 1) : SubSeq(s, i, i + Len(sep) - 1) = sep}
    IN  IF ms = {} THEN 0 ELSE CHOOSE i \in ms : \A j \in ms : i <= j

RECURSIVE Split(_, _)
Split(s, sep) ==
    IF sep = <<>>
    THEN [i \in 1..Len(s) |-> <<s[i]>>]
    ELSE LET m == IndexOf(s, sep)
         IN  IF m = 0
             THEN <<s>>
             ELSE <<SubSeq(s, 1, m - 1)>> \o Split(SubSeq(s, m + Len(sep), Len(s)), sep)

(* Arguments of the calls: "", "a", ",", "a,b" and minimum hit counts on  *)
(* both sides of the default page size.                                    *)

IndexArgs == {<<>>, <<"a">>, <<",">>, <<"a", ",", "b">>}

MinArgs == {0, 1, DefaultSize, DefaultSize + 1, MaxDocs}

----------------------------------------------------------------------------
(* The requests SearchIndexMinDocs builds *)

NewSearchRequest(idx) == Split(idx, Comma)

InitialSizeAtLeast(m) == IF m >= DefaultSize THEN m ELSE NoSize

InitialSize(m) == IF m > DefaultSize THEN m ELSE NoSize

RefreshRequest(idx) == Split(Comma, idx)

CondsMinHitsOnly == <<"MinHits">>

CondsTotalHitsOnly == <<"TotalHits">>

Conds == <<"MinHits", "TotalHits">>

CondNames == {"MinHits", "TotalHits"}

(* The condition constructors of SearchHits *)

MinHitsConditionStrict(m, res) == res.hits > m

MinHitsCondition(m, res) == res.hits >= m

TotalHitsConditionExact(res) == res.hits = res.total

TotalHitsCondition(res) == res.hits >= res.total

TotalHitsSizeAlways(res, size) == res.total

TotalHitsSizeKept(res, size) == size

TotalHitsSize(res, size) == IF res.hits >= res.total THEN size ELSE res.total

CondValue(c, m, res) ==
    IF c = "MinHits" THEN MinHitsCondition(m, res) ELSE TotalHitsCondition(res)

CondSize(c, res, size) ==
    IF c = "TotalHits" THEN TotalHitsSize(res, size) ELSE size

(* AllCondition: every sub-condition is invoked, in order, on every       *)
(* evaluation; the result is the conjunction of what they returned.       *)

RECURSIVE SizeAfter(_, _, _, _)
SizeAfter(conds, invoked, res, size) ==
    IF conds = <<>> THEN size
    ELSE SizeAfter(Tail(conds), Tail(invoked), res,
                   IF Head(invoked) THEN CondSize(Head(conds), res, size) ELSE size)

AllCondition(conds, m, res, size) ==
    LET v   == [i \in 1..Len(conds) |-> CondValue(conds[i], m, res)]
        inv == [i \in 1..Len(conds) |-> TRUE]
    IN  [invoked |-> inv,
         vals    |-> v,
         size    |-> SizeAfter(conds, inv, res, size),
         ok      |-> \A i \in 1..Len(conds) : v[i]]

DeadlinePassedEarly(now, deadline) == now + BackoffInterval >= deadline

DeadlinePassed(now, deadline) == now >= deadline

EffectiveSize(size) == IF size = NoSize THEN DefaultSize ELSE size

Satisfies(res, m) == res.hits >= m /\ res.hits >= res.total

----------------------------------------------------------------------------
(* State after SearchIndexMinDocs has built req and the conditions *)

StartCall(idx, m, t) ==
    /\ index = idx
    /\ min = m
    /\ timeout = t
    /\ pc = "Refreshing"
    /\ reqIndex = NewSearchRequest(idx)
    /\ reqSize = InitialSize(m)
    /\ refreshReq = <<>>
    /\ searchReq = [Index |-> <<>>, Size |-> NoSize]
    /\ refreshCount = 0
    /\ searchCount = 0
    /\ attempts = 0
    /\ result = NoResult
    /\ calls = [c \in CondNames |-> 0]
    /\ vals = [c \in CondNames |-> "unset"]
    /\ clock = 0
    /\ sleepLeft = 0
    /\ cancelled = FALSE
    /\ err = "none"
    /\ failedIn = "none"
    /\ errResult = NoResult
    /\ errAttempts = 0
    /\ lastResp = NoResult
    /\ firstSat = 0

(* The index argument only decides the index lists of the two requests, so *)
(* it is varied with the first of the other arguments and fixed otherwise. *)
Init ==
    \E idx \in IndexArgs, m \in MinArgs, t \in 1..MaxTimeout :
        /\ idx = <<"a", ",", "b">> \/ (m = DefaultSize + 1 /\ t = 1)
        /\ StartCall(idx, m, t)

ReturnNil(e) == [pc |-> "Succeeded", err |-> "none"]

(* What SearchIndexMinDocs returns for the error of the request it made *)
Return(e) ==
    IF e # "none" THEN [pc |-> "Failed", err |-> e] ELSE [pc |-> "Succeeded", err |-> "none"]

Fail(kind) ==
    /\ pc' = Return(kind).pc
    /\ err' = Return(kind).err
    /\ failedIn' = pc

RefreshNotIssued ==
    /\ pc = "Refreshing"
    /\ ~cancelled
    /\ pc' = "Querying"
    /\ UNCHANGED <<index, min, timeout, reqIndex, reqSize, refreshReq, searchReq,
                   refreshCount, searchCount, attempts, result, calls, vals, clock,
                   sleepLeft, cancelled, err, failedIn, errResult, errAttempts,
                   lastResp, firstSat>>
    /\ UNCHANGED otherVars

(* refreshReq.Do succeeds *)
RefreshOK ==
    /\ pc = "Refreshing"
    /\ ~cancelled
    /\ refreshReq' = RefreshRequest(index)
    /\ refreshCount' = refreshCount + 1
    /\ pc' = "Querying"
    /\ UNCHANGED <<index, min, timeout, reqIndex, reqSize, searchReq, searchCount,
                   attempts, result, calls, vals, clock, sleepLeft, cancelled, err,
                   failedIn, errResult, errAttempts, lastResp, firstSat>>
    /\ UNCHANGED otherVars

RefreshErrIgnored ==
    /\ pc = "Refreshing"
    /\ refreshReq' = RefreshRequest(index)
    /\ refreshCount' = refreshCount + 1
    /\ pc' = "Querying"
    /\ err' = "Refresh"
    /\ failedIn' = pc
    /\ UNCHANGED <<index, min, timeout, reqIndex, reqSize, searchReq, searchCount,
                   attempts, result, calls, vals, clock, sleepLeft, cancelled,
                   errResult, errAttempts, lastResp, firstSat>>
    /\ UNCHANGED otherVars

(* refreshReq.Do fails: "failed refreshing indices" *)
RefreshErr ==
    /\ pc = "Refreshing"
    /\ refreshReq' = RefreshRequest(index)
    /\ refreshCount' = refreshCount + 1
    /\ Fail("Refresh")
    /\ UNCHANGED <<index, min, timeout, reqIndex, reqSize, searchReq, searchCount,
                   attempts, result, calls, vals, clock, sleepLeft, cancelled,
                   errResult, errAttempts, lastResp, firstSat>>
    /\ UNCHANGED otherVars

(* One search of the retry loop whose response decodes into result *)
SearchOK ==
    /\ pc = "Querying"
    /\ ~cancelled
    /\ \E t \in 0..MaxDocs : \E h \in 0..Minimum(EffectiveSize(reqSize), t) :
          LET rsp == [hits |-> h, total |-> t]
          IN  /\ result' = rsp
              /\ lastResp' = rsp
              /\ firstSat' = IF firstSat = 0 /\ Satisfies(rsp, min)
                             THEN searchCount + 1 ELSE firstSat
    /\ searchReq' = [Index |-> reqIndex, Size |-> reqSize]
    /\ searchCount' = searchCount + 1
    /\ attempts' = attempts + 1
    /\ pc' = "Evaluating"
    /\ UNCHANGED <<index, min, timeout, reqIndex, reqSize, refreshReq, refreshCount,
                   calls, vals, clock, sleepLeft, cancelled, err, failedIn,
                   errResult, errAttempts>>
    /\ UNCHANGED otherVars

(* One search of the retry loop that fails in the transport or the decoder *)
SearchErr ==
    /\ pc = "Querying"
    /\ searchReq' = [Index |-> reqIndex, Size |-> reqSize]
    /\ searchCount' = searchCount + 1
    /\ attempts' = attempts + 1
    /\ Fail(IF cancelled THEN "Cancellation" ELSE "Transport")
    /\ UNCHANGED <<index, min, timeout, reqIndex, reqSize, refreshReq, refreshCount,
                   result, calls, vals, clock, sleepLeft, cancelled,
                   errResult, errAttempts, lastResp, firstSat>>
    /\ UNCHANGED otherVars

Outcome == AllCondition(Conds, min, result, reqSize)

Invocations(c) == Cardinality({i \in 1..Len(Conds) : Conds[i] = c /\ Outcome.invoked[i]})

LastValue(c) ==
    LET is == {i \in 1..Len(Conds) : Conds[i] = c /\ Outcome.invoked[i]}
    IN  IF is = {} THEN "unset"
        ELSE IF \A i \in is : Outcome.vals[i] THEN "true" ELSE "false"

(* The composed condition is evaluated against the decoded result *)
Evaluated ==
    /\ pc = "Evaluating"
    /\ calls' = [c \in CondNames |-> calls[c] + Invocations(c)]
    /\ vals' = [c \in CondNames |-> LastValue(c)]
    /\ reqSize' = Outcome.size
    /\ UNCHANGED <<index, min, timeout, reqIndex, refreshReq, searchReq, refreshCount,
                   searchCount, attempts, result, clock, cancelled, lastResp, firstSat>>
    /\ UNCHANGED otherVars

EvalSucceed ==
    /\ Evaluated
    /\ Outcome.ok
    /\ pc' = Return("none").pc
    /\ err' = Return("none").err
    /\ UNCHANGED <<sleepLeft, failedIn, errResult, errAttempts>>

(* The condition is false, the deadline has passed and the context is      *)
(* cancelled: the cancellation is what the call reports.                   *)
EvalCancelled ==
    /\ Evaluated
    /\ ~Outcome.ok
    /\ cancelled
    /\ DeadlinePassed(clock, timeout)
    /\ Fail("Cancellation")
    /\ UNCHANGED <<sleepLeft, errResult, errAttempts>>

EvalTimeoutStale ==
    /\ Evaluated
    /\ ~Outcome.ok
    /\ ~cancelled
    /\ DeadlinePassed(clock, timeout)
    /\ Fail("Timeout")
    /\ errResult' = errResult
    /\ errAttempts' = attempts - 1
    /\ UNCHANGED sleepLeft

EvalTimeout ==
    /\ Evaluated
    /\ ~Outcome.ok
    /\ ~cancelled
    /\ DeadlinePassed(clock, timeout)
    /\ Fail("Timeout")
    /\ errResult' = result
    /\ errAttempts' = attempts
    /\ UNCHANGED sleepLeft

(* The condition is false before the deadline: the call goes to sleep; a   *)
(* cancelled context ends the sleep at once (SleepCancelled).              *)
EvalBackoff ==
    /\ Evaluated
    /\ ~Outcome.ok
    /\ ~DeadlinePassed(clock, timeout)
    /\ pc' = "Backoff"
    /\ sleepLeft' = BackoffInterval
    /\ UNCHANGED <<err, failedIn, errResult, errAttempts>>

SleepNeverWakes ==
    /\ pc = "Backoff"
    /\ ~cancelled
    /\ sleepLeft > 0
    /\ sleepLeft' = sleepLeft
    /\ UNCHANGED <<index, min, timeout, pc, reqIndex, reqSize, refreshReq, searchReq,
                   refreshCount, searchCount, attempts, result, calls, vals, clock,
                   cancelled, err, failedIn, errResult, errAttempts, lastResp, firstSat>>
    /\ UNCHANGED otherVars

(* One tick of the backoff sleep; the last one starts the next attempt *)
Sleep ==
    /\ pc = "Backoff"
    /\ ~cancelled
    /\ sleepLeft > 0
    /\ clock' = clock + 1
    /\ sleepLeft' = sleepLeft - 1
    /\ pc' = IF sleepLeft = 1 THEN "Querying" ELSE "Backoff"
    /\ UNCHANGED <<index, min, timeout, reqIndex, reqSize, refreshReq, searchReq,
                   refreshCount, searchCount, attempts, result, calls, vals,
                   cancelled, err, failedIn, errResult, errAttempts, lastResp, firstSat>>
    /\ UNCHANGED otherVars

SleepCancelledLate ==
    /\ pc = "Backoff"
    /\ cancelled
    /\ sleepLeft' = 0
    /\ clock' = clock + sleepLeft
    /\ Fail("Cancellation")
    /\ UNCHANGED <<index, min, timeout, reqIndex, reqSize, refreshReq, searchReq,
                   refreshCount, searchCount, attempts, result, calls, vals,
                   cancelled, errResult, errAttempts, lastResp, firstSat>>
    /\ UNCHANGED otherVars

(* The sleep observes the cancelled context *)
SleepCancelled ==
    /\ pc = "Backoff"
    /\ cancelled
    /\ Fail("Cancellation")
    /\ UNCHANGED <<index, min, timeout, reqIndex, reqSize, refreshReq, searchReq,
                   refreshCount, searchCount, attempts, result, calls, vals, clock,
                   sleepLeft, cancelled, errResult, errAttempts, lastResp, firstSat>>
    /\ UNCHANGED otherVars

(* The caller cancels the context *)
Cancel ==
    /\ pc \notin Terminal
    /\ ~cancelled
    /\ cancelled' = TRUE
    /\ UNCHANGED <<index, min, timeout, pc, reqIndex, reqSize, refreshReq, searchReq,
                   refreshCount, searchCount, attempts, result, calls, vals, clock,
                   sleepLeft, err, failedIn, errResult, errAttempts, lastResp, firstSat>>
    /\ UNCHANGED otherVars

(* The caller calls again with an equivalent payload and a fresh context *)
NewCall ==
    /\ pc \in Terminal
    /\ index' = index
    /\ min' = min
    /\ timeout' = timeout
    /\ pc' = "Refreshing"
    /\ reqIndex' = NewSearchRequest(index)
    /\ reqSize' = InitialSize(min)
    /\ refreshReq' = <<>>
    /\ searchReq' = [Index |-> <<>>, Size |-> NoSize]
    /\ refreshCount' = 0
    /\ searchCount' = 0
    /\ attempts' = 0
    /\ result' = NoResult
    /\ calls' = [c \in CondNames |-> 0]
    /\ vals' = [c \in CondNames |-> "unset"]
    /\ clock' = 0
    /\ sleepLeft' = 0
    /\ cancelled' = FALSE
    /\ err' = "none"
    /\ failedIn' = "none"
    /\ errResult' = NoResult
    /\ errAttempts' = 0
    /\ lastResp' = NoResult
    /\ firstSat' = 0
    /\ UNCHANGED otherVars

PollStep ==
    \/ RefreshOK
    \/ RefreshErr
    \/ SearchOK
    \/ SearchErr
    \/ EvalSucceed
    \/ EvalCancelled
    \/ EvalTimeout
    \/ EvalBackoff
    \/ Sleep
    \/ SleepCancelled

Next ==
    \/ PollStep
    \/ Cancel
    \/ NewCall

----------------------------------------------------------------------------
(* The condition constructors applied to arbitrary hits, totals and sizes *)

CondPayloads ==
    [Index : {<<<<"a">>>>}, Size : {NoSize} \cup 0..MaxCondHits, Sort : {<<>>, <<"f">>}]

CondResults == [hits : 0..MaxCondHits, total : 0..MaxCondHits]

CondStart(res, m, pl) ==
    /\ condRes = res
    /\ condMin = m
    /\ condPayload = pl
    /\ condBefore = pl
    /\ condOp = "none"
    /\ condOut = FALSE

CondInit ==
    \E res \in CondResults, m \in 0..MaxCondHits, pl \in CondPayloads : CondStart(res, m, pl)

CondIdle == CondStart(NoResult, 0, [Index |-> <<<<"a">>>>, Size |-> NoSize, Sort |-> <<>>])

(* h.MinHitsCondition(min)(resp): the closure holds h and min only *)
ApplyMinHits ==
    /\ condOp = "none"
    /\ condOut' = MinHitsCondition(condMin, condRes)
    /\ condOp' = "MinHits"
    /\ UNCHANGED <<condRes, condMin, condPayload, condBefore>>
    /\ UNCHANGED condFrame

(* h.TotalHitsCondition(req)(resp) *)
ApplyTotalHits ==
    /\ condOp = "none"
    /\ condOut' = TotalHitsCondition(condRes)
    /\ condPayload' = [condPayload EXCEPT !.Size = TotalHitsSize(condRes, condPayload.Size)]
    /\ condOp' = "TotalHits"
    /\ UNCHANGED <<condRes, condMin, condBefore>>
    /\ UNCHANGED condFrame

(* The next response is decoded into the same SearchHits *)
CondNextResult ==
    /\ condOp # "none"
    /\ \E res \in CondResults : condRes' = res
    /\ condBefore' = condPayload
    /\ condOp' = "none"
    /\ UNCHANGED <<condMin, condPayload, condOut>>
    /\ UNCHANGED condFrame

CondNext ==
    \/ ApplyMinHits
    \/ ApplyTotalHits
    \/ CondNextResult

PollIdle == StartCall(<<"a">>, 0, 1)

----------------------------------------------------------------------------
(* SearchHit.UnmarshalJSON.  A JSON value is a record with its type t; an  *)
(* element of a field's array is a string (v names it), null, or a number: *)
(* the integer v when b = 0 and 2^53 + v when b = 1.                       *)

Str(v) == [t |-> "string", b |-> 0, v |-> v]

Num(b, v) == [t |-> "number", b |-> b, v |-> v]

Null == [t |-> "null", b |-> 0, v |-> 0]

Elems == {Str(1), Num(0, 1), Num(1, 1), Null}

Paths == {"service.name", "n"}

RECURSIVE SeqsUpTo(_, _)
SeqsUpTo(S, n) ==
    IF n = 0 THEN {<<>>}
    ELSE LET shorter == SeqsUpTo(S, n - 1)
         IN  shorter \cup {Append(q, e) : q \in shorter, e \in S}

(* What the store sends for one field path: an array of one or more        *)
(* elements; a bare string and null are the other shapes decoded here.     *)
FieldValues ==
    {[t |-> "array", elems |-> q] : q \in SeqsUpTo(Elems, MaxFieldLen) \ {<<>>}}
        \cup {[t |-> "string", elems |-> <<>>], [t |-> "null", elems |-> <<>>]}

NoObject == [p \in {} |-> Null]

FieldsInputs ==
    {[t |-> k, obj |-> NoObject] : k \in {"missing", "null", "string", "array"}}
        \cup {[t |-> "object", obj |-> o] :
                  o \in UNION {[D -> FieldValues] : D \in SUBSET Paths}}

SourceInputs == {"missing", "null", "string", "object"}

HitInputs ==
    {[json |-> "object", source |-> src, fields |-> f] :
        src \in SourceInputs, f \in FieldsInputs}
      \cup {[json |-> "malformed", source |-> "missing",
              fields |-> [t |-> "missing", obj |-> NoObject]]}

(* encoding/json stores a JSON number in an interface value as a float64:  *)
(* integers up to 2^53 are exact, 2^53 + v is rounded to the nearest even  *)
(* multiple of 2 (ties to the even mantissa).                              *)
Float64(e) ==
    IF e.t # "number" \/ e.b = 0 \/ e.v % 2 = 0 THEN e
    ELSE IF ((e.v - 1) \div 2) % 2 = 0 THEN Num(e.b, e.v - 1) ELSE Num(e.b, e.v + 1)

(* json.Unmarshal of one field value into a []any *)
SliceError(val) == val.t \notin {"array", "null"}

SliceOfFirst(val) == [i \in 1..Minimum(1, Len(val.elems)) |-> Float64(val.elems[i])]

SliceOf(val) == [i \in 1..Len(val.elems) |-> Float64(val.elems[i])]

(* json.Unmarshal(h.RawSource, &h.Source): an empty RawMessage is a syntax *)
(* error, null is accepted and leaves no entries, a non-object is a type   *)
(* error.                                                                  *)
SourceError(src) == src \in {"missing", "string"}

(* json.Unmarshal(h.RawFields, &h.Fields) *)
FieldsError(f) ==
    \/ f.t \in {"missing", "string", "array"}
    \/ f.t = "object" /\ \E p \in DOMAIN f.obj : SliceError(f.obj[p])

FieldsOf(f) ==
    IF f.t = "object" /\ ~FieldsError(f)
    THEN [p \in DOMAIN f.obj |-> SliceOf(f.obj[p])]
    ELSE NoObject

NoHit == [err |-> "none", Source |-> "unset", Fields |-> NoObject]

UnmarshalJSON(hit) ==
    IF hit.json # "object" THEN [NoHit EXCEPT !.err = "json"]
    ELSE IF SourceError(hit.source)
         THEN [NoHit EXCEPT !.err = "_source"]
    ELSE IF FieldsError(hit.fields)
         THEN [NoHit EXCEPT !.err = "fields"]
    ELSE [err    |-> "none",
          Source |-> IF hit.source = "object" THEN "object" ELSE "empty",
          Fields |-> FieldsOf(hit.fields)]

DecStart(hit) ==
    /\ decIn = hit
    /\ decOut = NoHit
    /\ decPc = "input"

DecInit == \E hit \in HitInputs : DecStart(hit)

DecIdle == DecStart([json |-> "malformed", source |-> "missing",
                     fields |-> [t |-> "missing", obj |-> NoObject]])

Decode ==
    /\ decPc = "input"
    /\ decOut' = UnmarshalJSON(decIn)
    /\ decPc' = "decoded"
    /\ UNCHANGED decIn
    /\ UNCHANGED decFrame

DecNext == Decode

----------------------------------------------------------------------------
(* Two concurrent calls.  Each call builds its own result and its own      *)
(* search request; the store answers a call's first search from first and  *)
(* every later one from rest, a document count or a failure.               *)

Calls == {1, 2}

SearchFails == -1

DocValues == {SearchFails, 0, DefaultSize + 1, MaxDocs}

Scripts == [first : DocValues, rest : DocValues]

PayloadShared(i) == 1

(* req := es.NewSearchRequest(index) is a local of the call *)
PayloadOf(i) == i

Answer(docs, n) == IF n = 1 THEN docs.first ELSE docs.rest

Response(d, size) == [hits |-> Minimum(EffectiveSize(size), d), total |-> d]

TwoStart(ms, t, ds) ==
    /\ twoMin = ms
    /\ twoTimeout = [i \in Calls |-> t]
    /\ twoDocs = ds
    /\ twoPc = [i \in Calls |-> "Refreshing"]
    /\ twoSize = [i \in Calls |-> InitialSize(ms[i])]
    /\ twoResult = [i \in Calls |-> NoResult]
    /\ twoAttempts = [i \in Calls |-> 0]
    /\ twoClock = [i \in Calls |-> 0]
    /\ twoErr = [i \in Calls |-> "none"]

TwoInit ==
    \E ms \in [Calls -> {1, MaxDocs}], t \in 1..MaxTimeout, ds \in [Calls -> Scripts] :
        TwoStart(ms, t, ds)

TwoIdle ==
    TwoStart([i \in Calls |-> 1], 1, [i \in Calls |-> [first |-> 0, rest |-> 0]])

TwoOutcome(i) == AllCondition(Conds, twoMin[i], twoResult[i], twoSize[PayloadOf(i)])

TwoRefresh(i) ==
    /\ twoPc[i] = "Refreshing"
    /\ twoPc' = [twoPc EXCEPT ![i] = "Querying"]
    /\ UNCHANGED <<twoMin, twoTimeout, twoDocs, twoSize, twoResult, twoAttempts,
                   twoClock, twoErr>>
    /\ UNCHANGED twoFrame

TwoSearchOK(i) ==
    /\ twoPc[i] = "Querying"
    /\ Answer(twoDocs[i], twoAttempts[i] + 1) # SearchFails
    /\ twoResult' = [twoResult EXCEPT ![i] =
                        Response(Answer(twoDocs[i], twoAttempts[i] + 1),
                                 twoSize[PayloadOf(i)])]
    /\ twoAttempts' = [twoAttempts EXCEPT ![i] = @ + 1]
    /\ twoPc' = [twoPc EXCEPT ![i] = "Evaluating"]
    /\ UNCHANGED <<twoMin, twoTimeout, twoDocs, twoSize, twoClock, twoErr>>
    /\ UNCHANGED twoFrame

TwoSearchErr(i) ==
    /\ twoPc[i] = "Querying"
    /\ Answer(twoDocs[i], twoAttempts[i] + 1) = SearchFails
    /\ twoAttempts' = [twoAttempts EXCEPT ![i] = @ + 1]
    /\ twoPc' = [twoPc EXCEPT ![i] = Return("Transport").pc]
    /\ twoErr' = [twoErr EXCEPT ![i] = Return("Transport").err]
    /\ UNCHANGED <<twoMin, twoTimeout, twoDocs, twoSize, twoResult, twoClock>>
    /\ UNCHANGED twoFrame

TwoEvaluated(i) ==
    /\ twoPc[i] = "Evaluating"
    /\ twoSize' = [twoSize EXCEPT ![PayloadOf(i)] = TwoOutcome(i).size]
    /\ UNCHANGED <<twoMin, twoTimeout, twoDocs, twoResult, twoAttempts, twoClock>>
    /\ UNCHANGED twoFrame

TwoEvalSucceed(i) ==
    /\ TwoEvaluated(i)
    /\ TwoOutcome(i).ok
    /\ twoPc' = [twoPc EXCEPT ![i] = Return("none").pc]
    /\ twoErr' = [twoErr EXCEPT ![i] = Return("none").err]

TwoEvalTimeout(i) ==
    /\ TwoEvaluated(i)
    /\ ~TwoOutcome(i).ok
    /\ DeadlinePassed(twoClock[i], twoTimeout[i])
    /\ twoPc' = [twoPc EXCEPT ![i] = Return("Timeout").pc]
    /\ twoErr' = [twoErr EXCEPT ![i] = Return("Timeout").err]

TwoEvalBackoff(i) ==
    /\ TwoEvaluated(i)
    /\ ~TwoOutcome(i).ok
    /\ ~DeadlinePassed(twoClock[i], twoTimeout[i])
    /\ twoPc' = [twoPc EXCEPT ![i] = "Backoff"]
    /\ UNCHANGED twoErr

TwoSleep(i) ==
    /\ twoPc[i] = "Backoff"
    /\ twoClock' = [twoClock EXCEPT ![i] = @ + BackoffInterval]
    /\ twoPc' = [twoPc EXCEPT ![i] = "Querying"]
    /\ UNCHANGED <<twoMin, twoTimeout, twoDocs, twoSize, twoResult, twoAttempts, twoErr>>
    /\ UNCHANGED twoFrame

TwoNext ==
    \E i \in Calls :
        \/ TwoRefresh(i)
        \/ TwoSearchOK(i)
        \/ TwoSearchErr(i)
        \/ TwoEvalSucceed(i)
        \/ TwoEvalTimeout(i)
        \/ TwoEvalBackoff(i)
        \/ TwoSleep(i)

(* The same call with nothing else running: the outcome, the number of     *)
(* searches and the size its request is left with.                         *)
RECURSIVE Alone(_, _, _, _, _, _)
Alone(docs, m, t, size, clk, n) ==
    LET d == Answer(docs, n + 1)
    IN  IF d = SearchFails
        THEN [pc |-> Return("Transport").pc, err |-> Return("Transport").err,
              attempts |-> n + 1, size |-> size]
        ELSE LET out == AllCondition(Conds, m, Response(d, size), size)
             IN  IF out.ok
                 THEN [pc |-> Return("none").pc, err |-> Return("none").err,
                       attempts |-> n + 1, size |-> out.size]
                 ELSE IF DeadlinePassed(clk, t)
                 THEN [pc |-> Return("Timeout").pc, err |-> Return("Timeout").err,
                       attempts |-> n + 1, size |-> out.size]
                 ELSE Alone(docs, m, t, out.size, clk + BackoffInterval, n + 1)

RunAlone(docs, m, t) == Alone(docs, m, t, InitialSize(m), 0, 0)

----------------------------------------------------------------------------
(* EventStats.Add *)

EventStats == [ExceptionsSent : 0..MaxStat, LogsSent : 0..MaxStat, SpansSent : 0..MaxStat]

ZeroStats == [ExceptionsSent |-> 0, LogsSent |-> 0, SpansSent |-> 0]

Add(lhs, rhs) ==
    [ExceptionsSent |-> rhs.ExceptionsSent,
     LogsSent       |-> rhs.LogsSent,
     SpansSent      |-> rhs.SpansSent]

StatStart(a, b) ==
    /\ statLhs = a
    /\ statRhs = b
    /\ statOut = ZeroStats
    /\ statPc = "input"

StatInit == \E a \in EventStats, b \in EventStats : StatStart(a, b)

StatIdle == StatStart(ZeroStats, ZeroStats)

StatAdd ==
    /\ statPc = "input"
    /\ statOut' = Add(statLhs, statRhs)
    /\ statPc' = "added"
    /\ UNCHANGED <<statLhs, statRhs>>
    /\ UNCHANGED statFrame

StatNext == StatAdd

----------------------------------------------------------------------------
(* RetryBackoff.  A time.Duration is an int64 of nanoseconds.  Every value *)
(* computed here is a multiple of 2^8 ns (500ms = 2^8 * 5^9 ns and         *)
(* 10s = 2^10 * 5^10 ns), so a duration is held in units of 2^8 ns as a    *)
(* 56-bit two's complement number of two 28-bit limbs: arithmetic modulo   *)
(* 2^56 units is arithmetic modulo 2^64 ns.                                *)

Limb == 268435456

HalfSecondUnits == 1953125

maxBackoffUnits == 39062500

Duration(units) == [hi |-> 0, lo |-> units]

maxElasticsearchBackoff == Duration(maxBackoffUnits)

Double(d) ==
    [hi |-> (2 * d.hi + (2 * d.lo) \div Limb) % Limb, lo |-> (2 * d.lo) % Limb]

RECURSIVE Doubled(_, _)
Doubled(d, n) ==
    IF n = 0 \/ d = Duration(0) THEN d ELSE Doubled(Double(d), n - 1)

(* d * (1 << n): a shift count of 64 or more gives 0 *)
TimesShift(d, n) == IF n >= 64 THEN Duration(0) ELSE Doubled(d, n)

Negative(d) == d.hi >= Limb \div 2

Greater(a, b) ==
    IF Negative(a) # Negative(b) THEN Negative(b)
    ELSE a.hi > b.hi \/ (a.hi = b.hi /\ a.lo > b.lo)

RetryBackoffUncapped(attempt) == TimesShift(Duration(HalfSecondUnits), attempt - 1)

RetryBackoff(attempt) ==
    LET backoff == TimesShift(Duration(HalfSecondUnits), attempt - 1)
    IN  IF Greater(backoff, maxElasticsearchBackoff)
        THEN maxElasticsearchBackoff ELSE backoff

BoStart(a) ==
    /\ boAttempt = a
    /\ boOut = Duration(0)
    /\ boPc = "input"

BoInit == \E a \in 1..MaxAttempt : BoStart(a)

BoIdle == BoStart(1)

BoCall ==
    /\ boPc = "input"
    /\ boOut' = RetryBackoff(boAttempt)
    /\ boPc' = "returned"
    /\ UNCHANGED boAttempt
    /\ UNCHANGED boFrame

BoNext == BoCall

----------------------------------------------------------------------------
(* The credentials cache of apmtool.  A cache file is missing, holds a     *)
(* JSON object (its members in the order json.Marshal writes them, sorted  *)
(* by key), or holds bytes that are no JSON object.  time.Time survives    *)
(* the round trip through JSON as the same instant; 0 is the zero time.    *)

Procs == {1, 2}

URLs == {"u1", "u2"}

URLOrder == <<"u1", "u2">>

Durations == {0, 1}

(* The first process is run with either URL, the second with u2 only *)
ProcURLs(p) == IF p = 1 THEN URLs ELSE {"u2"}

NoCreds == [Expiry |-> 0, APIKey |-> <<>>, SecretToken |-> ""]

FileMissing == [kind |-> "missing", entries |-> <<>>]

FileCorrupt == [kind |-> "corrupt", entries |-> <<>>]

FilePartial == [kind |-> "partial", entries |-> <<>>]

NoMap == [u \in {} |-> NoCreds]

RECURSIVE MarshalIn(_, _)
MarshalIn(m, order) ==
    IF order = <<>> THEN <<>>
    ELSE (IF Head(order) \in DOMAIN m
          THEN <<[url |-> Head(order), creds |-> m[Head(order)]]>>
          ELSE <<>>) \o MarshalIn(m, Tail(order))

(* json.Marshal(m) of a map[string]*credentials *)
Marshal(m) == [kind |-> "json", entries |-> MarshalIn(m, URLOrder)]

(* json.Unmarshal(data, &m): a later member replaces an earlier one *)
UnmarshalFails(data) == data.kind # "json"

Unmarshal(data) ==
    LET is == DOMAIN data.entries
    IN  [u \in {data.entries[i].url : i \in is} |->
            data.entries[CHOOSE i \in is :
                            /\ data.entries[i].url = u
                            /\ \A j \in is : data.entries[j].url = u => j <= i].creds]

ReadCachedCredentialsNoEntry(file, url) ==
    IF file.kind = "missing" THEN [creds |-> NoCreds, err |-> "ErrNotExist"]
    ELSE IF UnmarshalFails(file) THEN [creds |-> NoCreds, err |-> "decode"]
    ELSE IF url \in DOMAIN Unmarshal(file)
         THEN [creds |-> Unmarshal(file)[url], err |-> "nil"]
    ELSE [creds |-> NoCreds, err |-> "no entry"]

(* readCachedCredentials: the error of readCache for a missing file wraps  *)
(* os.ErrNotExist, and so does the error for a missing entry.              *)
ReadCachedCredentials(file, url) ==
    IF file.kind = "missing" THEN [creds |-> NoCreds, err |-> "ErrNotExist"]
    ELSE IF UnmarshalFails(file) THEN [creds |-> NoCreds, err |-> "decode"]
    ELSE IF url \in DOMAIN Unmarshal(file)
         THEN [creds |-> Unmarshal(file)[url], err |-> "nil"]
    ELSE [creds |-> NoCreds, err |-> "ErrNotExist"]

PurgedOrNow(v, t) == v.Expiry # 0 /\ v.Expiry <= t

(* !v.Expiry.IsZero() && v.Expiry.Before(now) *)
Purged(v, t) == v.Expiry # 0 /\ v.Expiry < t

(* The update function of updateCachedCredentials *)
UpdateFails(data) == data.kind # "missing" /\ UnmarshalFails(data)

Update(data, url, c, t) ==
    LET m0   == IF data.kind = "missing" THEN NoMap ELSE Unmarshal(data)
        m1   == [u \in DOMAIN m0 \cup {url} |-> IF u = url THEN c ELSE m0[u]]
        keep == {u \in DOMAIN m1 : ~Purged(m1[u], t)}
    IN  Marshal([u \in keep |-> m1[u]])

(* The deployments that have an Elastic Cloud integration policy *)
HasPolicy(u) == u = "u1"

LockFreeAlways(l) == TRUE

(* flock.Lock() blocks while another process holds the lock *)
LockFree(l) == l = 0

NoRet == [creds |-> NoCreds, err |-> "none", via |-> "none", at |-> 0]

NoRead == [creds |-> NoCreds, err |-> "none"]

NoSettled == [creds |-> NoCreds, cached |-> FALSE]

CacheStart(file) ==
    /\ timeNow = 1
    /\ cacheFile = file
    /\ tempFile = FileMissing
    /\ flock = 0
    /\ gPc = [p \in Procs |-> "idle"]
    /\ gURL = [p \in Procs |-> "u1"]
    /\ gDur = [p \in Procs |-> 0]
    /\ gCreds = [p \in Procs |-> NoCreds]
    /\ gData = [p \in Procs |-> FileMissing]
    /\ gNew = [p \in Procs |-> FileMissing]
    /\ gUpdAt = [p \in Procs |-> 0]
    /\ gRead = [p \in Procs |-> NoRead]
    /\ gRet = [p \in Procs |-> NoRet]
    /\ gEs = [p \in Procs |-> FALSE]
    /\ settled = [u \in URLs |-> NoSettled]

CacheInit == \E file \in {FileMissing, FileCorrupt, Marshal(NoMap)} : CacheStart(file)

CacheIdle == CacheStart(FileMissing)

(* getCredentials returns: the deferred Unlock runs, the locals are gone *)
GetReturn(p, c, e, via) ==
    /\ gPc' = [gPc EXCEPT ![p] = "returned"]
    /\ gRet' = [gRet EXCEPT ![p] = [creds |-> c, err |-> e, via |-> via, at |-> timeNow]]
    /\ gCreds' = [gCreds EXCEPT ![p] = NoCreds]
    /\ gData' = [gData EXCEPT ![p] = FileMissing]
    /\ gNew' = [gNew EXCEPT ![p] = FileMissing]
    /\ gUpdAt' = [gUpdAt EXCEPT ![p] = 0]
    /\ flock' = IF flock = p THEN 0 ELSE flock

(* getCredentials starts: readCachedCredentials under the lock *)
GetStart(p) ==
    /\ gPc[p] = "idle"
    /\ LockFree(flock)
    /\ \E u \in ProcURLs(p), d \in Durations :
          LET r == ReadCachedCredentials(cacheFile, u)
          IN  /\ gURL' = [gURL EXCEPT ![p] = u]
              /\ gDur' = [gDur EXCEPT ![p] = d]
              /\ gRead' = [gRead EXCEPT ![p] = r]
              /\ gEs' = [gEs EXCEPT ![p] = FALSE]
              /\ IF r.err = "nil"
                 THEN /\ GetReturn(p, r.creds, "nil", "cache")
                      /\ settled' = [settled EXCEPT ![u] =
                                        [creds |-> r.creds, cached |-> TRUE]]
                 ELSE IF r.err # "ErrNotExist"
                 THEN /\ GetReturn(p, NoCreds, r.err, "none")
                      /\ UNCHANGED settled
                 ELSE /\ gPc' = [gPc EXCEPT ![p] = "request"]
                      /\ gRet' = [gRet EXCEPT ![p] = NoRet]
                      /\ UNCHANGED <<gCreds, gData, gNew, gUpdAt, flock, settled>>
    /\ UNCHANGED <<timeNow, cacheFile, tempFile>>
    /\ UNCHANGED cacheFrame

(* GetElasticCloudAPMInput, then CreateAgentAPIKey succeeds *)
GetRequest(p) ==
    /\ gPc[p] = "request"
    /\ gCreds' = [gCreds EXCEPT ![p] =
                     [Expiry      |-> IF gDur[p] > 0 THEN timeNow + gDur[p] ELSE 0,
                      APIKey      |-> <<p, timeNow>>,
                      SecretToken |-> IF HasPolicy(gURL[p]) THEN "token" ELSE ""]]
    /\ gEs' = [gEs EXCEPT ![p] = TRUE]
    /\ gPc' = [gPc EXCEPT ![p] = "update"]
    /\ UNCHANGED <<timeNow, cacheFile, tempFile, flock, gURL, gDur, gData, gNew, gUpdAt,
                   gRead, gRet, settled>>
    /\ UNCHANGED cacheFrame

(* CreateAgentAPIKey fails *)
GetRequestFails(p) ==
    /\ gPc[p] = "request"
    /\ gEs' = [gEs EXCEPT ![p] = TRUE]
    /\ GetReturn(p, NoCreds, "apikey", "none")
    /\ UNCHANGED <<timeNow, cacheFile, tempFile, gURL, gDur, gRead, settled>>
    /\ UNCHANGED cacheFrame

(* updateCache: cacheFlock.Lock() *)
UpdLock(p) ==
    /\ gPc[p] = "update"
    /\ LockFree(flock)
    /\ flock' = p
    /\ gPc' = [gPc EXCEPT ![p] = "locked"]
    /\ UNCHANGED <<timeNow, cacheFile, tempFile, gURL, gDur, gCreds, gData, gNew, gUpdAt,
                   gRead, gRet, gEs, settled>>
    /\ UNCHANGED cacheFrame

(* updateCache: os.ReadFile and update(data).  The update function fails  *)
(* on data that does not decode; getCredentials comes here only after its  *)
(* read of the same file found it missing or decoded it.                   *)
UpdApply(p) ==
    /\ gPc[p] = "locked"
    /\ IF UpdateFails(cacheFile)
       THEN /\ GetReturn(p, NoCreds, "update", "none")
            /\ UNCHANGED <<timeNow, cacheFile, tempFile, gURL, gDur, gRead, gEs, settled>>
       ELSE /\ gData' = [gData EXCEPT ![p] = cacheFile]
            /\ gNew' = [gNew EXCEPT ![p] = Update(cacheFile, gURL[p], gCreds[p], timeNow)]
            /\ gUpdAt' = [gUpdAt EXCEPT ![p] = timeNow]
            /\ gPc' = [gPc EXCEPT ![p] = "write"]
            /\ UNCHANGED <<timeNow, cacheFile, tempFile, flock, gURL, gDur, gCreds,
                           gRead, gRet, gEs, settled>>
    /\ UNCHANGED cacheFrame

(* updateCache: os.WriteFile(cacheFilePathTemp, data, 0600) *)
UpdWriteTemp(p) ==
    /\ gPc[p] = "write"
    /\ tempFile' = gNew[p]
    /\ gPc' = [gPc EXCEPT ![p] = "rename"]
    /\ UNCHANGED <<timeNow, cacheFile, flock, gURL, gDur, gCreds, gData, gNew, gUpdAt,
                   gRead, gRet, gEs, settled>>
    /\ UNCHANGED cacheFrame

UpdWriteInPlaceFails(p) ==
    /\ gPc[p] = "write"
    /\ cacheFile' = FilePartial
    /\ GetReturn(p, NoCreds, "write", "none")
    /\ UNCHANGED <<timeNow, tempFile, gURL, gDur, gRead, gEs, settled>>
    /\ UNCHANGED cacheFrame

(* os.WriteFile fails after it has written a part of the data *)
UpdWriteTempFails(p) ==
    /\ gPc[p] = "write"
    /\ tempFile' = FilePartial
    /\ GetReturn(p, NoCreds, "write", "none")
    /\ UNCHANGED <<timeNow, cacheFile, gURL, gDur, gRead, gEs, settled>>
    /\ UNCHANGED cacheFrame

UpdRenameSkipped(p) ==
    /\ gPc[p] = "rename"
    /\ GetReturn(p, gCreds[p], "nil", "created")
    /\ settled' = [u \in URLs |->
                      IF u = gURL[p]
                      THEN [creds |-> gCreds[p], cached |-> ~Purged(gCreds[p], gUpdAt[p])]
                      ELSE NoSettled]
    /\ UNCHANGED <<timeNow, cacheFile, tempFile, gURL, gDur, gRead, gEs>>
    /\ UNCHANGED cacheFrame

(* updateCache: os.Rename(cacheFilePathTemp, cacheFilePath); the cache has *)
(* changed, so what earlier calls for other URLs returned is settled no    *)
(* more.                                                                   *)
UpdRename(p) ==
    /\ gPc[p] = "rename"
    /\ cacheFile' = tempFile
    /\ tempFile' = FileMissing
    /\ GetReturn(p, gCreds[p], "nil", "created")
    /\ settled' = [u \in URLs |->
                      IF u = gURL[p]
                      THEN [creds |-> gCreds[p], cached |-> ~Purged(gCreds[p], gUpdAt[p])]
                      ELSE NoSettled]
    /\ UNCHANGED <<timeNow, gURL, gDur, gRead, gEs>>
    /\ UNCHANGED cacheFrame

UpdRenameFails(p) ==
    /\ gPc[p] = "rename"
    /\ GetReturn(p, NoCreds, "rename", "none")
    /\ UNCHANGED <<timeNow, cacheFile, tempFile, gURL, gDur, gRead, gEs, settled>>
    /\ UNCHANGED cacheFrame

(* The command uses what getCredentials returned and the process ends *)
GetDone(p) ==
    /\ gPc[p] = "returned"
    /\ gPc' = [gPc EXCEPT ![p] = "idle"]
    /\ gURL' = [gURL EXCEPT ![p] = "u1"]
    /\ gDur' = [gDur EXCEPT ![p] = 0]
    /\ gRead' = [gRead EXCEPT ![p] = NoRead]
    /\ gRet' = [gRet EXCEPT ![p] = NoRet]
    /\ gEs' = [gEs EXCEPT ![p] = FALSE]
    /\ UNCHANGED <<timeNow, cacheFile, tempFile, flock, gCreds, gData, gNew, gUpdAt,
                   settled>>
    /\ UNCHANGED cacheFrame

Tick ==
    /\ timeNow < MaxNow
    /\ timeNow' = timeNow + 1
    /\ UNCHANGED <<cacheFile, tempFile, flock, gPc, gURL, gDur, gCreds, gData, gNew,
                   gUpdAt, gRead, gRet, gEs, settled>>
    /\ UNCHANGED cacheFrame

CacheNext ==
    \/ \E p \in Procs :
          \/ GetStart(p)
          \/ GetRequest(p)
          \/ GetRequestFails(p)
          \/ UpdLock(p)
          \/ UpdApply(p)
          \/ UpdWriteTemp(p)
          \/ UpdWriteTempFails(p)
          \/ UpdRename(p)
          \/ UpdRenameFails(p)
          \/ GetDone(p)
    \/ Tick

----------------------------------------------------------------------------

InitPoll ==
    /\ Init /\ CondIdle /\ DecIdle /\ TwoIdle
    /\ StatIdle /\ BoIdle /\ CacheIdle

Spec == InitPoll /\ [][Next]_allVars

FairSpec == Spec /\ WF_allVars(PollStep)

InitCond ==
    /\ PollIdle /\ CondInit /\ DecIdle /\ TwoIdle
    /\ StatIdle /\ BoIdle /\ CacheIdle

SpecCond == InitCond /\ [][CondNext]_allVars

InitDecode ==
    /\ PollIdle /\ CondIdle /\ DecInit /\ TwoIdle
    /\ StatIdle /\ BoIdle /\ CacheIdle

SpecDecode == InitDecode /\ [][DecNext]_allVars

InitTwo ==
    /\ PollIdle /\ CondIdle /\ DecIdle /\ TwoInit
    /\ StatIdle /\ BoIdle /\ CacheIdle

SpecTwo == InitTwo /\ [][TwoNext]_allVars

InitStats ==
    /\ PollIdle /\ CondIdle /\ DecIdle /\ TwoIdle
    /\ StatInit /\ BoIdle /\ CacheIdle

SpecStats == InitStats /\ [][StatNext]_allVars

InitBackoff ==
    /\ PollIdle /\ CondIdle /\ DecIdle /\ TwoIdle
    /\ StatIdle /\ BoInit /\ CacheIdle

SpecBackoff == InitBackoff /\ [][BoNext]_allVars

InitCache ==
    /\ PollIdle /\ CondIdle /\ DecIdle /\ TwoIdle
    /\ StatIdle /\ BoIdle /\ CacheInit

SpecCache == InitCache /\ [][CacheNext]_allVars

----------------------------------------------------------------------------
(* Properties *)

(* Attempts whose response has been decoded and evaluated: the attempt in  *)
(* pc = "Evaluating" is still to be evaluated, and an attempt whose search *)
(* failed never is.                                                        *)
EvaluatedAttempts ==
    attempts - (IF pc = "Evaluating" \/ failedIn = "Querying" THEN 1 ELSE 0)

(* C1: every sub-condition of AllCondition(MinHits, TotalHits) is invoked  *)
(* exactly once on every evaluated attempt, also when MinHits returned     *)
(* false: each invocation count equals the number of evaluated attempts.   *)
C1_EverySubConditionInvoked ==
    \A c \in {"MinHits", "TotalHits"} : calls[c] = EvaluatedAttempts

C1_Witness ==
    /\ pc = "Backoff"
    /\ attempts = 2
    /\ vals["MinHits"] = "false"
    /\ vals["TotalHits"] = "false"
    /\ calls["TotalHits"] = 2

(* C2: a search that fails in the transport or decoder ends the call with  *)
(* that error; the condition is not evaluated for it, no search follows,   *)
(* and a further search is only ever issued after a false condition.       *)
C2_SearchErrorAborts ==
    /\ [](failedIn = "Querying" =>
            /\ pc = "Failed"
            /\ err \in {"Transport", "Cancellation"}
            /\ \A c \in CondNames : calls[c] = attempts - 1)
    /\ [][(searchCount >= 1 /\ searchCount' = searchCount + 1) =>
            /\ err = "none"
            /\ \E c \in CondNames : vals[c] = "false"]_vars

C2_Witness ==
    /\ failedIn = "Querying"
    /\ err = "Transport"
    /\ searchCount = 2
    /\ calls["MinHits"] = 1

(* C3: a failed refresh ends the call with an error, with no search issued *)
(* and exactly one refresh request made.                                   *)
C3_RefreshErrorAborts ==
    err = "Refresh" => /\ pc = "Failed"
                       /\ searchCount = 0
                       /\ refreshCount = 1

C3_Witness ==
    /\ err = "Refresh"
    /\ pc = "Failed"
    /\ ~cancelled

(* C4: every call issues exactly one refresh, before its first search, and *)
(* none between attempts.                                                  *)
C4_ExactlyOneRefreshFirst ==
    /\ refreshCount <= 1
    /\ searchCount >= 1 => refreshCount = 1
    /\ pc # "Refreshing" => refreshCount = 1

C4_Witness ==
    /\ searchCount = 3
    /\ refreshCount = 1

(* C5: the refresh request names exactly the indices of the search         *)
(* request, the index argument split on commas.                            *)
C5_RefreshTargetsIndexSet ==
    /\ refreshCount >= 1 => refreshReq = Split(index, Comma)
    /\ searchCount >= 1 => refreshReq = searchReq.Index

(* C6: the call succeeds on the first search whose response satisfies the  *)
(* condition, after exactly one refresh, and returns that response; once a *)
(* response satisfied the condition no further search is issued.  This     *)
(* holds for every one of the caller's repeated calls.                     *)
C6_SucceedsOnFirstSatisfyingSearch ==
    /\ pc = "Succeeded" => /\ refreshCount = 1
                           /\ firstSat = searchCount
                           /\ result = lastResp
                           /\ Satisfies(result, min)
                           /\ err = "none"
    /\ firstSat # 0 => /\ pc \in {"Evaluating", "Succeeded"}
                       /\ searchCount = firstSat

C6_Witness ==
    /\ pc = "Succeeded"
    /\ searchCount = 3
    /\ result.hits = MaxDocs

(* C7: every call reaches Succeeded or Failed, and a call that fails with  *)
(* neither a transport error nor a cancellation fails with a TimeoutError. *)
C7_EveryCallTerminates ==
    /\ (pc \notin Terminal) ~> (pc \in Terminal)
    /\ [](pc = "Failed" /\ ~cancelled /\ failedIn \notin {"Refreshing", "Querying"}
            => err = "Timeout")

C7_Witness ==
    /\ err = "Timeout"
    /\ attempts = 3
    /\ firstSat = 0

(* C8: a TimeoutError is returned no earlier than the deadline and no      *)
(* later than one backoff interval after it.                               *)
C8_TimeoutWithinOneBackoff ==
    err = "Timeout" => /\ clock >= timeout
                       /\ clock <= timeout + BackoffInterval

C8_Witness ==
    /\ err = "Timeout"
    /\ clock > timeout

(* C9: the TimeoutError carries the Result of the last search performed    *)
(* and the number of searches issued in the call.                          *)
C9_TimeoutCarriesLastResult ==
    err = "Timeout" => /\ errResult = lastResp
                       /\ errAttempts = searchCount

C9_Witness ==
    /\ err = "Timeout"
    /\ errAttempts = 2
    /\ errResult.total > 0

(* C10: a call whose context is cancelled while it sleeps in Backoff fails *)
(* with a CancellationError in its next step, at the same clock value and  *)
(* without another search; a TimeoutError is never reported for a          *)
(* cancelled context.                                                      *)
C10_CancelDuringBackoff ==
    /\ [][(pc = "Backoff" /\ cancelled) =>
            /\ pc' = "Failed"
            /\ err' = "Cancellation"
            /\ clock' = clock
            /\ searchCount' = searchCount]_vars
    /\ [](err = "Timeout" => ~cancelled)

C10_Witness ==
    /\ err = "Cancellation"
    /\ failedIn = "Backoff"
    /\ sleepLeft = 1

(* C11: a call with an empty index argument fails with a ValidationError   *)
(* before any request: no refresh and no search is issued.                 *)
C11_EmptyIndexRejected ==
    index = <<>> => /\ refreshCount = 0
                    /\ searchCount = 0
                    /\ pc \in Terminal => err = "Validation"

(* C12: a call starts in Refreshing and changes position only along the    *)
(* transitions of the state machine, each under its condition; Succeeded   *)
(* and Failed are left only by the start of a new call.                    *)
C12_StateMachine ==
    /\ []((refreshCount = 0 /\ searchCount = 0) => pc = "Refreshing")
    /\ [][pc' # pc =>
            \/ /\ pc \in {"Succeeded", "Failed"}
               /\ pc' = "Refreshing" /\ refreshCount' = 0 /\ searchCount' = 0
            \/ /\ pc = "Refreshing" /\ pc' = "Querying"
               /\ err' = "none" /\ refreshCount' = 1
            \/ /\ pc = "Refreshing" /\ pc' = "Failed"
               /\ err' = "Refresh"
            \/ /\ pc = "Querying" /\ pc' = "Evaluating"
               /\ err' = "none" /\ result' = lastResp'
            \/ /\ pc = "Querying" /\ pc' = "Failed"
               /\ err' \in {"Transport", "Cancellation"} /\ result' = result
            \/ /\ pc = "Evaluating" /\ pc' = "Succeeded"
               /\ Satisfies(result, min)
            \/ /\ pc = "Evaluating" /\ pc' = "Backoff"
               /\ ~Satisfies(result, min) /\ clock < timeout
            \/ /\ pc = "Evaluating" /\ pc' = "Failed"
               /\ ~Satisfies(result, min) /\ clock >= timeout
            \/ /\ pc = "Backoff" /\ pc' = "Querying"
               /\ ~cancelled /\ sleepLeft' = 0
            \/ /\ pc = "Backoff" /\ pc' = "Failed"
               /\ cancelled /\ err' = "Cancellation"]_vars

C12_Witness ==
    /\ pc = "Failed"
    /\ failedIn = "Backoff"
    /\ searchCount = 2
    /\ sleepLeft = BackoffInterval

(* C16: the composed condition is true on an attempt exactly when every    *)
(* sub-condition returned true on that attempt.                            *)
C16_AllOfIsConjunction ==
    /\ pc = "Succeeded" => \A c \in {"MinHits", "TotalHits"} : vals[c] = "true"
    /\ (pc = "Backoff" \/ failedIn = "Evaluating") =>
           \E c \in {"MinHits", "TotalHits"} : vals[c] = "false"
    /\ \A c \in {"MinHits", "TotalHits"} :
           vals[c] = "unset" <=> EvaluatedAttempts = 0

C16_Witness ==
    /\ pc = "Backoff"
    /\ vals["MinHits"] = "true"
    /\ vals["TotalHits"] = "false"

(* C17: every search is sent with the payload's current size, so after     *)
(* TotalHits returned false for a reported total T the next search of the  *)
(* call is sent with size T.                                               *)
C17_MutationReachesNextSearch ==
    [][(pc = "Querying" /\ searchCount >= 1 /\ searchCount' = searchCount + 1
        /\ vals["TotalHits"] = "false") =>
            /\ searchReq'.Size = result.total
            /\ searchReq'.Size > result.hits]_vars

C17_Witness ==
    /\ pc = "Evaluating"
    /\ searchCount = 2
    /\ vals["TotalHits"] = "false"
    /\ min = 1
    /\ searchReq.Size = MaxDocs

(* C20: the first search carries size = min exactly when min > 10, and no  *)
(* size otherwise.                                                         *)
C20_FirstSearchSize ==
    searchCount = 1 =>
        /\ (searchReq.Size = min) <=> (min > 10)
        /\ min <= 10 => searchReq.Size = NoSize

C20_Witness ==
    /\ searchCount = 1
    /\ min = 11
    /\ searchReq.Size = 11

C20_WitnessDefault ==
    /\ searchCount = 1
    /\ min = 10
    /\ searchReq.Size = NoSize

(* C13 as stated: TotalHitsCondition returns true exactly when the number  *)
(* of hits equals the reported total.                                      *)
C13_TotalHitsIffEqual ==
    condOp = "TotalHits" => (condOut <=> condRes.hits = condRes.total)

(* C13 as amended: TotalHitsCondition returns true exactly when the number *)
(* of hits is at least the reported total.                                 *)
C13_TotalHitsIffAtLeast ==
    condOp = "TotalHits" => (condOut <=> condRes.hits >= condRes.total)

C13_Witness ==
    /\ condOp = "TotalHits"
    /\ condOut
    /\ condRes.hits > condRes.total

(* C14: TotalHitsCondition sets the request's size to the reported total   *)
(* when there are fewer hits than the total, and changes no field of the   *)
(* request when the number of hits equals the total.                       *)
C14_TotalHitsSizeEffect ==
    condOp = "TotalHits" =>
        /\ condRes.hits < condRes.total =>
              condPayload = [condBefore EXCEPT !.Size = condRes.total]
        /\ condRes.hits = condRes.total => condPayload = condBefore

C14_Witness ==
    /\ condOp = "TotalHits"
    /\ condRes.hits < condRes.total
    /\ condBefore.Size \notin {NoSize, condRes.total}
    /\ condPayload.Size = condRes.total
    /\ condPayload.Sort = <<"f">>

C14_WitnessUntouched ==
    /\ condOp = "TotalHits"
    /\ condRes.hits = condRes.total
    /\ condPayload.Size \notin {NoSize, condRes.total}

(* C15: MinHitsCondition(n) returns true exactly when the number of hits   *)
(* is at least n (always for n = 0) and leaves the request unchanged.      *)
C15_MinHitsIffAtLeast ==
    condOp = "MinHits" =>
        /\ condOut <=> condRes.hits >= condMin
        /\ condMin = 0 => condOut
        /\ condPayload = condBefore

C15_Witness ==
    /\ condOp = "MinHits"
    /\ ~condOut
    /\ condRes.hits = condMin - 1

C15_WitnessZero ==
    /\ condOp = "MinHits"
    /\ condMin = 0
    /\ condRes.hits = 0
    /\ condOut

(* A hit the store sends: an object _source and a fields object whose     *)
(* values are arrays.  JSON null in their place is neither missing nor     *)
(* malformed text; the decoder accepts it as no entries.                   *)
WellFormed(hit) ==
    /\ hit.json = "object"
    /\ hit.source = "object"
    /\ hit.fields.t = "object"
    /\ \A p \in DOMAIN hit.fields.obj : hit.fields.obj[p].t = "array"

HasNull(hit) ==
    \/ hit.source = "null"
    \/ hit.fields.t = "null"
    \/ \E p \in DOMAIN hit.fields.obj : hit.fields.obj[p].t = "null"

MissingOrMalformed(hit) == ~WellFormed(hit) /\ ~HasNull(hit)

C19_WitnessMissing ==
    /\ decPc = "decoded"
    /\ decIn.source = "object"
    /\ decIn.fields.t = "missing"
    /\ decOut.err = "fields"

(* C18: of two calls that run concurrently, each with its own request and *)
(* its own result, each ends under every interleaving with the outcome,    *)
(* the number of attempts and the size override it has when it runs alone, *)
(* and the size of a call's request changes only in that call's own        *)
(* evaluation of its condition.                                            *)
TwoFinal(i) ==
    [pc |-> twoPc[i], err |-> twoErr[i], attempts |-> twoAttempts[i],
     size |-> twoSize[PayloadOf(i)]]

TwoSameAsAlone ==
    \A i \in Calls :
        twoPc[i] \in Terminal =>
            TwoFinal(i) = RunAlone(twoDocs[i], twoMin[i], twoTimeout[i])

TwoOwnPayload ==
    \A i \in Calls :
        twoSize'[i] # twoSize[i] =>
            /\ twoPc[i] = "Evaluating"
            /\ twoPc'[i] # "Evaluating"
            /\ \A j \in Calls \ {i} : twoPc'[j] = twoPc[j]

C18_ConcurrentCallsIndependent == [](TwoSameAsAlone) /\ [][TwoOwnPayload]_allVars

C18_Witness ==
    /\ twoPc[1] = "Succeeded"
    /\ twoAttempts[1] = 2
    /\ twoSize[1] = DefaultSize + 1
    /\ twoPc[2] = "Backoff"
    /\ twoAttempts[2] = 1
    /\ twoSize[2] = MaxDocs

(* C22: a.Add(b) returns statistics whose ExceptionsSent, LogsSent and     *)
(* SpansSent are each the sum of the fields of a and b; so Add is          *)
(* commutative and adding the zero value returns a.                        *)
C22_AddIsFieldwiseSum ==
    statPc = "added" =>
        /\ statOut.ExceptionsSent = statLhs.ExceptionsSent + statRhs.ExceptionsSent
        /\ statOut.LogsSent = statLhs.LogsSent + statRhs.LogsSent
        /\ statOut.SpansSent = statLhs.SpansSent + statRhs.SpansSent
        /\ statOut = Add(statRhs, statLhs)
        /\ statRhs = ZeroStats => statOut = statLhs

(* The backoff without overflow: 500ms doubled attempt - 1 times, never    *)
(* more than 10s.                                                          *)
RECURSIVE CappedUnits(_)
CappedUnits(k) ==
    IF k = 0 THEN HalfSecondUnits
    ELSE LET twice == 2 * CappedUnits(k - 1)
         IN  IF twice > maxBackoffUnits THEN maxBackoffUnits ELSE twice

BackoffInRange(attempt, d) ==
    /\ d = Duration(CappedUnits(attempt - 1))
    /\ ~Greater(Duration(HalfSecondUnits), d)
    /\ ~Greater(d, maxElasticsearchBackoff)
    /\ attempt > 1 => ~Greater(RetryBackoff(attempt - 1), d)

C29_WitnessDoubling ==
    /\ boPc = "returned"
    /\ boAttempt = 5
    /\ boOut = Duration(16 * HalfSecondUnits)

(* C21: SearchIndexMinDocs returns a nil error only if the returned result *)
(* holds at least min hits, and that result is the response of a search of *)
(* this call; so a call none of whose searches returned at least min hits  *)
(* before the timeout ends with an error.                                  *)
C21_NilErrorOnlyWithMinHits ==
    /\ pc = "Succeeded" =>
          /\ err = "none"
          /\ searchCount >= 1
          /\ result = lastResp
          /\ result.hits >= min
    /\ (pc \in Terminal /\ lastResp.hits < min) => (pc = "Failed" /\ err # "none")

C21_Witness ==
    /\ pc = "Succeeded"
    /\ min = DefaultSize + 1
    /\ attempts = 2
    /\ result.hits = MaxDocs

C21_WitnessTimeout ==
    /\ pc = "Failed"
    /\ err = "Timeout"
    /\ min = DefaultSize + 1
    /\ searchCount >= 2
    /\ lastResp.hits < min

(* The step in which a process's getCredentials call starts and runs       *)
(* readCachedCredentials, and the step in which its updateCache returns.   *)
Starts(p) == gPc[p] = "idle" /\ gPc'[p] # "idle"

Updated(p) == gPc[p] = "rename" /\ gPc'[p] = "returned" /\ gRet'[p].err = "nil"

Entries(file) == IF file.kind = "json" THEN Unmarshal(file) ELSE NoMap

Expired(c, t) == c.Expiry # 0 /\ c.Expiry < t

(* C23: readCachedCredentials(url) returns an error that is os.ErrNotExist *)
(* when the cache file does not exist and when it exists but has no entry  *)
(* for url, and returns credentials with a nil error exactly when the file *)
(* has an entry for url, and then that entry.                              *)
C23_ReadReportsNotExist ==
    [][\A p \in Procs :
          Starts(p) =>
              LET u   == gURL'[p]
                  r   == gRead'[p]
                  has == u \in DOMAIN Entries(cacheFile)
              IN  /\ (cacheFile.kind = "missing" \/ (cacheFile.kind = "json" /\ ~has))
                        => (r.err = "ErrNotExist" /\ r.creds = NoCreds)
                  /\ r.err = "nil" <=> has
                  /\ has => r.creds = Entries(cacheFile)[u]]_allVars

C23_Witness ==
    /\ gPc[1] = "request"
    /\ gURL[1] = "u1"
    /\ gRead[1].err = "ErrNotExist"
    /\ DOMAIN Entries(cacheFile) = {"u2"}

C23_WitnessHit ==
    /\ gPc[2] = "returned"
    /\ gRead[2].err = "nil"
    /\ gRead[2].creds = Entries(cacheFile)["u2"]
    /\ DOMAIN Entries(cacheFile) = URLs

(* C24: after a successful updateCachedCredentials(url, c) the cache holds *)
(* no entry whose Expiry is non-zero and earlier than the time of the      *)
(* update, every unexpired entry it held for another URL is still there    *)
(* and unchanged, and the entry for url is c when c is not expired.        *)
C24_UpdateKeepsUnexpired ==
    [][\A p \in Procs :
          Updated(p) =>
              LET t   == gUpdAt[p]
                  old == Entries(cacheFile)
                  new == Entries(cacheFile')
              IN  /\ cacheFile'.kind = "json"
                  /\ \A u \in DOMAIN new : ~Expired(new[u], t)
                  /\ \A u \in DOMAIN old \ {gURL[p]} :
                        ~Expired(old[u], t) => (u \in DOMAIN new /\ new[u] = old[u])
                  /\ ~Expired(gCreds[p], t) =>
                        (gURL[p] \in DOMAIN new /\ new[gURL[p]] = gCreds[p])]_allVars

C24_Witness ==
    /\ gPc[1] = "returned"
    /\ gRet[1].via = "created"
    /\ gURL[1] = "u1"
    /\ DOMAIN Entries(cacheFile) = URLs
    /\ Entries(cacheFile)["u1"] = gRet[1].creds
    /\ Entries(cacheFile)["u2"].Expiry = timeNow

C24_WitnessPurged ==
    /\ gPc[1] = "returned"
    /\ gRet[1].via = "created"
    /\ gRet[1].at = 3
    /\ gPc[2] = "returned"
    /\ gRet[2].via = "created"
    /\ gRet[2].creds.Expiry = 2
    /\ DOMAIN Entries(cacheFile) = {"u1"}

(* C25: updateCache calls on one cache directory are serialized by the     *)
(* lock: a call between its Lock and its return holds the lock, the data   *)
(* it read is still the content of the cache file and the temporary file   *)
(* is its own, so the file it installs is the update of the file it        *)
(* replaces and no update is lost.                                         *)
InUpdate(p) == gPc[p] \in {"locked", "write", "rename"}

UpdatesSerialized ==
    \A p \in Procs :
        /\ InUpdate(p) => flock = p
        /\ gPc[p] \in {"write", "rename"} => gData[p] = cacheFile
        /\ gPc[p] = "rename" => tempFile = gNew[p]

C25_UpdatesSerialized ==
    /\ [](UpdatesSerialized)
    /\ [][\A p \in Procs :
             Updated(p) =>
                 cacheFile' = Update(cacheFile, gURL[p], gCreds[p], gUpdAt[p])]_allVars

C25_Witness ==
    /\ gPc[1] = "rename"
    /\ gURL[1] = "u1"
    /\ gPc[2] = "update"
    /\ gURL[2] = "u2"
    /\ flock = 1

C25_WitnessBoth ==
    /\ DOMAIN Entries(cacheFile) = URLs
    /\ Entries(cacheFile)["u1"].APIKey[1] = 1
    /\ Entries(cacheFile)["u2"].APIKey[1] = 2
    /\ Entries(cacheFile)["u1"].APIKey[2] = Entries(cacheFile)["u2"].APIKey[2]

C26_WitnessRenameFails ==
    /\ gPc[1] = "returned"
    /\ gRet[1].err = "rename"
    /\ tempFile.kind = "json"
    /\ tempFile # cacheFile
    /\ cacheFile = FileMissing

(* C27 as stated: after a getCredentials call for URL u has succeeded, and *)
(* with the cache not modified since, every later getCredentials call for  *)
(* u returns the same credentials from the cache, sends no request to      *)
(* Elasticsearch and does not rewrite the cache.                           *)
ServedFromCache(p, c) ==
    /\ gPc'[p] = "returned"
    /\ gRet'[p].err = "nil"
    /\ gRet'[p].via = "cache"
    /\ gRet'[p].creds = c
    /\ ~gEs'[p]
    /\ cacheFile' = cacheFile

C27_LaterCallsHitCache ==
    [][\A p \in Procs :
          (Starts(p) /\ settled[gURL'[p]].creds # NoCreds)
              => ServedFromCache(p, settled[gURL'[p]].creds)]_allVars

(* C27 amended: the same, for a call that succeeded with credentials that  *)
(* had not expired when it cached them (or that came from the cache).      *)
C27_LaterCallsHitCacheIfCached ==
    [][\A p \in Procs :
          (Starts(p) /\ settled[gURL'[p]].creds # NoCreds /\ settled[gURL'[p]].cached)
              => ServedFromCache(p, settled[gURL'[p]].creds)]_allVars

C27_Witness ==
    /\ gPc[1] = "returned"
    /\ gURL[1] = "u1"
    /\ gRet[1].via = "cache"
    /\ gRet[1].creds.APIKey = <<1, 1>>
    /\ gRet[1].at = 2
    /\ settled["u1"] = [creds |-> gRet[1].creds, cached |-> TRUE]
    /\ ~gEs[1]

(* C28: readCachedCredentials, and so getCredentials on a cache hit, never *)
(* returns credentials whose Expiry is non-zero and earlier than the       *)
(* current time.                                                           *)
C28_NoExpiredFromCache ==
    \A p \in Procs :
        (gRet[p].err = "nil" /\ gRet[p].via = "cache")
            => ~Expired(gRet[p].creds, gRet[p].at)

====
